---- MODULE Spec2Model ----
(***************************************************************************)
(* Fixed-size sliding-window solutions of JoongLeo/leetcode-practice.      *)
(*                                                                         *)
(* Every source file holds one function.  A behaviour of this module is    *)
(* one call of one function: Init draws the function and its arguments,    *)
(* the actions are the steps of its loop(s), and the call ends in          *)
(* pc = "done" with the returned value in ret, or in pc = "crash" when an  *)
(* undefined operation (out-of-range read, signed overflow) stops it.      *)
(*                                                                         *)
(* Sequences are 1-based here and 0-based in the source: element i of the  *)
(* source is seq[i + 1].                                                   *)
(***************************************************************************)
EXTENDS Integers, Sequences, FiniteSets, TLC

VARIABLES
    fn,     \* the function called
    args,   \* its arguments, by their source names
    loc,    \* its local variables, by their source names
    pc,     \* position in the function
    ret,    \* << >> until the function returns, then << value >>
    oob,    \* history: some read was outside the sequence (undefined)
    ovf     \* history: some int operation left the int range (undefined)

vars == <<fn, args, loc, pc, ret, oob, ovf>>

----------------------------------------------------------------------------
(* Bounds of the model *)

\* longest input sequence
MaxLen == 3
\* int elements and thresholds of Spec range over -1 .. MaxVal
MaxVal == 2

----------------------------------------------------------------------------
(* Integer types.                                                          *)
(*                                                                         *)
(* int is 32 bits wide, and so are the integers of the model checker, so   *)
(* an exact sum of two ints is computed in two limbs: Wide(x) is the       *)
(* integer x as <<hi, lo>>, x = hi * 2^16 + lo, 0 <= lo < 2^16.  long long *)
(* values are kept in this form: with at most MaxLen + 1 summands of 32    *)
(* bits they stay far inside 64 bits, so long long arithmetic is exact.    *)

LimbBase == 2^16

INT_MAX == (2^30 - 1) + 2^30
INT_MIN == (-INT_MAX) - 1

Wide(x) == <<x \div LimbBase, x % LimbBase>>

WideAdd(a, b) ==
    LET lo == a[2] + b[2]
    IN  <<a[1] + b[1] + (lo \div LimbBase), lo % LimbBase>>

WideSub(a, b) ==
    LET lo == a[2] - b[2]
    IN  <<a[1] - b[1] + (lo \div LimbBase), lo % LimbBase>>

\* k * a for a small factor k
WideScale(k, a) ==
    LET lo == k * a[2]
    IN  <<k * a[1] + (lo \div LimbBase), lo % LimbBase>>

WideLess(a, b) == a[1] < b[1] \/ (a[1] = b[1] /\ a[2] < b[2])

\* does the exact value fit an int
FitsInt(a) == a[1] >= -(2^15) /\ a[1] < 2^15

\* the int a two's complement machine keeps of the exact value
WrapInt(a) == (((a[1] + 2^15) % LimbBase) - 2^15) * LimbBase + a[2]

\* a faulty long long + int: the sum is kept in 32 bits
LLAddNarrow(a, x) == Wide(WrapInt(WideAdd(a, Wide(x))))

\* long long + int, long long - int, max of two long long
LLAdd(a, x) == WideAdd(a, Wide(x))
LLSub(a, x) == WideSub(a, Wide(x))
LLMax(a, b) == IF WideLess(a, b) THEN b ELSE a

\* int + int, int - int, int * int: the exact result, before it is stored
IntAdd(x, y) == WideAdd(Wide(x), Wide(y))
IntSub(x, y) == WideSub(Wide(x), Wide(y))
IntMul(k, y) == WideScale(k, Wide(y))

Max(x, y) == IF x >= y THEN x ELSE y
Min(x, y) == IF x <= y THEN x ELSE y

----------------------------------------------------------------------------
(* Reads.  A read inside the sequence yields the element.  operator[] of a *)
(* std::string at index size() yields the terminator; every other read     *)
(* outside a sequence is undefined: it may yield any value or stop the     *)
(* program.  StrRead and VecRead are the values a read may yield.          *)

NUL == "NUL"
GarbageChars == {NUL, "a", "W"}
GarbageInts == {0, INT_MAX}

StrDefined(str, idx) == idx >= 0 /\ idx <= Len(str)
StrRead(str, idx) ==
    IF idx >= 0 /\ idx < Len(str) THEN {str[idx + 1]}
    ELSE IF idx = Len(str) THEN {NUL}
    ELSE GarbageChars

VecDefined(vec, idx) == idx >= 0 /\ idx < Len(vec)
VecRead(vec, idx) ==
    IF VecDefined(vec, idx) THEN {vec[idx + 1]} ELSE GarbageInts

\* An int operation whose exact result does not fit an int is undefined
\* too: the call goes on with the wrapped value or stops.

\* the program stops on an undefined operation
Crash(isOob, isOvf) ==
    /\ isOob \/ isOvf
    /\ pc' = "crash"
    /\ oob' = (oob \/ isOob)
    /\ ovf' = (ovf \/ isOvf)
    /\ UNCHANGED <<fn, args, loc, ret>>

\* the program goes on; an undefined operation leaves its mark
GoOn(isOob, isOvf) ==
    /\ oob' = (oob \/ isOob)
    /\ ovf' = (ovf \/ isOvf)
    /\ UNCHANGED <<fn, args>>

\* a faulty index of the leaving element: one too far left
LeftOffByOne(i, k) == i - k

\* index of the element leaving the window
Left(i, k) == i - k + 1

----------------------------------------------------------------------------
(* Inputs *)

SeqsUpTo(S, n) == UNION {[1..m -> S] : m \in 0..n}

\* every k in [1, n], and k = 0, k < 0, k > n
KRange(n) == -1 .. (n + 1)

SmallInts == -1 .. MaxVal
WideInts == {INT_MIN, -1, 1, INT_MAX}

VowelChars == {"a", "e", "i", "o", "u", "b"}
BlockChars == {"W", "B"}

----------------------------------------------------------------------------
(* 1456. maxVowels(string s, int k) *)

IsVowel(c) == c = "a" \/ c = "e" \/ c = "i" \/ c = "o" \/ c = "u"

\* a faulty early exit: one vowel short of a full window
AllVowelsButOne(ans, k) == ans = k - 1

\* if (ans == k) break: no window can hold more vowels
AllVowels(ans, k) == ans = k

InitMaxVowels ==
    /\ fn = "maxVowels"
    /\ \E s \in SeqsUpTo(VowelChars, MaxLen) : \E k \in KRange(Len(s)) :
          args = [s |-> s, k |-> k]
    /\ loc = [ans |-> 0, yuanyin |-> 0, i |-> 0]
    /\ pc = "admit"

MaxVowelsAdmit ==
    /\ fn = "maxVowels" /\ pc = "admit"
    /\ loc.i < Len(args.s)
    /\ LET yuanyin == loc.yuanyin + (IF IsVowel(args.s[loc.i + 1]) THEN 1 ELSE 0)
       IN  IF Left(loc.i, args.k) < 0
           THEN /\ loc' = [loc EXCEPT !.yuanyin = yuanyin, !.i = loc.i + 1]
                /\ pc' = "admit"
           ELSE /\ loc' = [loc EXCEPT !.yuanyin = yuanyin]
                /\ pc' = "check"
    /\ UNCHANGED <<fn, args, ret, oob, ovf>>

MaxVowelsCheck ==
    /\ fn = "maxVowels" /\ pc = "check"
    /\ LET ans == Max(loc.ans, loc.yuanyin)
       IN  /\ loc' = [loc EXCEPT !.ans = ans]
           /\ IF AllVowels(ans, args.k)
              THEN pc' = "done" /\ ret' = <<ans>>
              ELSE pc' = "evict" /\ ret' = ret
    /\ UNCHANGED <<fn, args, oob, ovf>>

MaxVowelsEvict ==
    /\ fn = "maxVowels" /\ pc = "evict"
    /\ LET left == Left(loc.i, args.k)
           undef == ~StrDefined(args.s, left)
       IN  \/ \E c \in StrRead(args.s, left) :
                 /\ loc' = [loc EXCEPT
                       !.yuanyin = loc.yuanyin - (IF IsVowel(c) THEN 1 ELSE 0),
                       !.i = loc.i + 1]
                 /\ pc' = "admit"
                 /\ ret' = ret
                 /\ GoOn(undef, FALSE)
           \/ Crash(undef, FALSE)

MaxVowelsReturn ==
    /\ fn = "maxVowels" /\ pc = "admit"
    /\ loc.i >= Len(args.s)
    /\ pc' = "done"
    /\ ret' = <<loc.ans>>
    /\ UNCHANGED <<fn, args, loc, oob, ovf>>

----------------------------------------------------------------------------
(* 2379. minimumRecolors(string blocks, int k): the same text in two       *)
(* directories; copy is the function name that tells them apart.           *)

RecolorsInit(copy) ==
    /\ fn = copy
    /\ \E blocks \in SeqsUpTo(BlockChars, MaxLen) : \E k \in KRange(Len(blocks)) :
          args = [blocks |-> blocks, k |-> k]
    /\ loc = [n |-> Len(args.blocks), cntW |-> 0, i |-> 0]
    /\ pc = "count"

\* a faulty test: the black blocks are counted
IsBlack(c) == c = "B"

IsWhite(c) == c = "W"

\* one iteration of the loop over the first window
RecolorsCount(copy) ==
    /\ fn = copy /\ pc = "count"
    /\ loc.i < args.k
    /\ LET undef == ~StrDefined(args.blocks, loc.i)
       IN  \/ \E c \in StrRead(args.blocks, loc.i) :
                 /\ loc' = [loc EXCEPT
                       !.cntW = loc.cntW + (IF IsWhite(c) THEN 1 ELSE 0),
                       !.i = loc.i + 1]
                 /\ pc' = pc
                 /\ ret' = ret
                 /\ GoOn(undef, FALSE)
           \/ Crash(undef, FALSE)

\* int ans = cntW; and the second loop starts at r = k
RecolorsFirst(copy) ==
    /\ fn = copy /\ pc = "count"
    /\ loc.i >= args.k
    /\ loc' = [n |-> loc.n, cntW |-> loc.cntW, ans |-> loc.cntW, r |-> args.k]
    /\ pc' = "slide"
    /\ UNCHANGED <<fn, args, ret, oob, ovf>>

\* one iteration of the sliding loop
RecolorsSlide(copy) ==
    /\ fn = copy /\ pc = "slide"
    /\ loc.r < loc.n
    /\ LET undef == \/ ~StrDefined(args.blocks, loc.r)
                    \/ ~StrDefined(args.blocks, loc.r - args.k)
       IN  \/ \E cin \in StrRead(args.blocks, loc.r) :
              \E cout \in StrRead(args.blocks, loc.r - args.k) :
                 LET cntW == loc.cntW + (IF IsWhite(cin) THEN 1 ELSE 0)
                                      - (IF IsWhite(cout) THEN 1 ELSE 0)
                 IN  /\ loc' = [loc EXCEPT !.cntW = cntW,
                                           !.ans = Min(loc.ans, cntW),
                                           !.r = loc.r + 1]
                     /\ pc' = pc
                     /\ ret' = ret
                     /\ GoOn(undef, FALSE)
           \/ Crash(undef, FALSE)

RecolorsReturn(copy) ==
    /\ fn = copy /\ pc = "slide"
    /\ loc.r >= loc.n
    /\ pc' = "done"
    /\ ret' = <<loc.ans>>
    /\ UNCHANGED <<fn, args, loc, oob, ovf>>

\* the copy under 1-定长滑动窗口
Recolors1 == "minimumRecolors_1"
InitRecolors1 == RecolorsInit(Recolors1)
Recolors1Count == RecolorsCount(Recolors1)
Recolors1First == RecolorsFirst(Recolors1)
Recolors1Slide == RecolorsSlide(Recolors1)
Recolors1Return == RecolorsReturn(Recolors1)

\* the copy under 一、定长滑动窗口
Recolors2 == "minimumRecolors_2"
InitRecolors2 == RecolorsInit(Recolors2)
Recolors2Count == RecolorsCount(Recolors2)
Recolors2First == RecolorsFirst(Recolors2)
Recolors2Slide == RecolorsSlide(Recolors2)
Recolors2Return == RecolorsReturn(Recolors2)

----------------------------------------------------------------------------
(* 1343. numOfSubarrays(vector<int>& arr, int k, int threshold) *)

InitNumOfSubarrays(Ints) ==
    /\ fn = "numOfSubarrays"
    /\ \E arr \in SeqsUpTo(Ints, MaxLen) : \E k \in KRange(Len(arr)) :
       \E threshold \in Ints :
          args = [arr |-> arr, k |-> k, threshold |-> threshold]
    /\ loc = [ans |-> 0, s |-> 0, i |-> 0]
    /\ pc = "admit"

NumOfSubarraysAdmit ==
    /\ fn = "numOfSubarrays" /\ pc = "admit"
    /\ loc.i < Len(args.arr)
    /\ LET e == IntAdd(loc.s, args.arr[loc.i + 1])
           over == ~FitsInt(e)
       IN  \/ /\ IF loc.i < args.k - 1
                 THEN /\ loc' = [loc EXCEPT !.s = WrapInt(e), !.i = loc.i + 1]
                      /\ pc' = "admit"
                 ELSE /\ loc' = [loc EXCEPT !.s = WrapInt(e)]
                      /\ pc' = "check"
              /\ ret' = ret
              /\ GoOn(FALSE, over)
           \/ Crash(FALSE, over)

\* a faulty comparison: a window exactly at the threshold is left out
ExceedsThreshold(s, k, threshold) == s > WrapInt(IntMul(k, threshold))

\* the window with sum s reaches the threshold
MeetsThreshold(s, k, threshold) == s >= WrapInt(IntMul(k, threshold))

NumOfSubarraysCheck ==
    /\ fn = "numOfSubarrays" /\ pc = "check"
    /\ LET over == ~FitsInt(IntMul(args.k, args.threshold))
       IN  \/ /\ loc' = [loc EXCEPT !.ans = loc.ans +
                    (IF MeetsThreshold(loc.s, args.k, args.threshold) THEN 1 ELSE 0)]
              /\ pc' = "evict"
              /\ ret' = ret
              /\ GoOn(FALSE, over)
           \/ Crash(FALSE, over)

NumOfSubarraysEvict ==
    /\ fn = "numOfSubarrays" /\ pc = "evict"
    /\ LET left == Left(loc.i, args.k)
           undef == ~VecDefined(args.arr, left)
       IN  \E out \in VecRead(args.arr, left) :
              LET e == IntSub(loc.s, out)
                  over == ~FitsInt(e)
              IN  \/ /\ loc' = [loc EXCEPT !.s = WrapInt(e), !.i = loc.i + 1]
                     /\ pc' = "admit"
                     /\ ret' = ret
                     /\ GoOn(undef, over)
                  \/ Crash(undef, over)

NumOfSubarraysReturn ==
    /\ fn = "numOfSubarrays" /\ pc = "admit"
    /\ loc.i >= Len(args.arr)
    /\ pc' = "done"
    /\ ret' = <<loc.ans>>
    /\ UNCHANGED <<fn, args, loc, oob, ovf>>

----------------------------------------------------------------------------
(* 643. findMaxAverage(vector<int>& nums, int k) *)

\* a faulty initial best sum: the wrong end of the int range
InitialBestTooLarge == INT_MAX

\* int max_s = INT_MIN
InitialBest == INT_MIN

InitFindMaxAverage(Ints) ==
    /\ fn = "findMaxAverage"
    /\ \E nums \in SeqsUpTo(Ints, MaxLen) : \E k \in KRange(Len(nums)) :
          args = [nums |-> nums, k |-> k]
    /\ loc = [max_s |-> InitialBest, s |-> 0, i |-> 0]
    /\ pc = "admit"

FindMaxAverageAdmit ==
    /\ fn = "findMaxAverage" /\ pc = "admit"
    /\ loc.i < Len(args.nums)
    /\ LET e == IntAdd(loc.s, args.nums[loc.i + 1])
           over == ~FitsInt(e)
       IN  \/ /\ IF loc.i < args.k - 1
                 THEN /\ loc' = [loc EXCEPT !.s = WrapInt(e), !.i = loc.i + 1]
                      /\ pc' = "admit"
                 ELSE /\ loc' = [loc EXCEPT !.s = WrapInt(e)]
                      /\ pc' = "check"
              /\ ret' = ret
              /\ GoOn(FALSE, over)
           \/ Crash(FALSE, over)

FindMaxAverageCheck ==
    /\ fn = "findMaxAverage" /\ pc = "check"
    /\ loc' = [loc EXCEPT !.max_s = Max(loc.max_s, loc.s)]
    /\ pc' = "evict"
    /\ UNCHANGED <<fn, args, ret, oob, ovf>>

FindMaxAverageEvict ==
    /\ fn = "findMaxAverage" /\ pc = "evict"
    /\ LET left == Left(loc.i, args.k)
           undef == ~VecDefined(args.nums, left)
       IN  \E out \in VecRead(args.nums, left) :
              LET e == IntSub(loc.s, out)
                  over == ~FitsInt(e)
              IN  \/ /\ loc' = [loc EXCEPT !.s = WrapInt(e), !.i = loc.i + 1]
                     /\ pc' = "admit"
                     /\ ret' = ret
                     /\ GoOn(undef, over)
                  \/ Crash(undef, over)

RECURSIVE Gcd(_, _)
Gcd(x, y) == IF y = 0 THEN x ELSE Gcd(y, x % y)

\* (double) a / b: the quotient as a fraction in lowest terms (every int is
\* a double; the rounding of the division is not modelled).  b = 0 gives
\* an infinity or a NaN, kept as a / 0.
Quotient(a, b) ==
    IF b = 0 THEN [num |-> a, den |-> 0]
    ELSE LET g == IF b > 0 THEN Gcd(b, a % b) ELSE Gcd(-b, a % (-b))
         IN  [num |-> a \div g, den |-> b \div g]

FindMaxAverageReturn ==
    /\ fn = "findMaxAverage" /\ pc = "admit"
    /\ loc.i >= Len(args.nums)
    /\ pc' = "done"
    /\ ret' = <<Quotient(loc.max_s, args.k)>>
    /\ UNCHANGED <<fn, args, loc, oob, ovf>>

----------------------------------------------------------------------------
(* 2461. maximumSubarraySum(vector<int>& nums, int k) *)

LLZero == Wide(0)

InitMaximumSubarraySum(Ints) ==
    /\ fn = "maximumSubarraySum"
    /\ \E nums \in SeqsUpTo(Ints, MaxLen) : \E k \in KRange(Len(nums)) :
          args = [nums |-> nums, k |-> k]
    /\ loc = [ans |-> LLZero, s |-> LLZero, cnt |-> << >>, i |-> 0]
    /\ pc = "admit"

\* unordered_map<int, int>: a function from its keys to their counts;
\* operator[] makes a missing key with count 0
CntAt(cnt, x) == IF x \in DOMAIN cnt THEN cnt[x] ELSE 0
CntPut(cnt, x, c) == [y \in (DOMAIN cnt) \cup {x} |-> IF y = x THEN c ELSE cnt[y]]
CntErase(cnt, x) == [y \in (DOMAIN cnt) \ {x} |-> cnt[y]]
CntSize(cnt) == Cardinality(DOMAIN cnt)

\* cnt[x]++
CntIncr(cnt, x) == CntPut(cnt, x, CntAt(cnt, x) + 1)

\* a faulty eviction: the key stays when its count reaches 0
CntDecrKeep(cnt, out) == CntPut(cnt, out, CntAt(cnt, out) - 1)

\* if (--cnt[out] == 0) cnt.erase(out)
CntDecr(cnt, out) ==
    IF CntAt(cnt, out) - 1 = 0
    THEN CntErase(cnt, out)
    ELSE CntPut(cnt, out, CntAt(cnt, out) - 1)

MaximumSubarraySumAdmit ==
    /\ fn = "maximumSubarraySum" /\ pc = "admit"
    /\ loc.i < Len(args.nums)
    /\ LET x == args.nums[loc.i + 1]
           s == LLAdd(loc.s, x)
           cnt == CntIncr(loc.cnt, x)
       IN  IF Left(loc.i, args.k) < 0
           THEN /\ loc' = [loc EXCEPT !.s = s, !.cnt = cnt, !.i = loc.i + 1]
                /\ pc' = "admit"
           ELSE /\ loc' = [loc EXCEPT !.s = s, !.cnt = cnt]
                /\ pc' = "check"
    /\ UNCHANGED <<fn, args, ret, oob, ovf>>

\* a faulty test: windows with repeated elements pass too
AllDistinctOrNot(cnt, k) == CntSize(cnt) <= k

\* cnt.size() == k: every element of the window is a key of its own
AllDistinct(cnt, k) == CntSize(cnt) = k

MaximumSubarraySumCheck ==
    /\ fn = "maximumSubarraySum" /\ pc = "check"
    /\ loc' = [loc EXCEPT !.ans = IF AllDistinct(loc.cnt, args.k)
                                   THEN LLMax(loc.ans, loc.s)
                                   ELSE loc.ans]
    /\ pc' = "evict"
    /\ UNCHANGED <<fn, args, ret, oob, ovf>>

MaximumSubarraySumEvict ==
    /\ fn = "maximumSubarraySum" /\ pc = "evict"
    /\ LET left == Left(loc.i, args.k)
           undef == ~VecDefined(args.nums, left)
       IN  \/ \E out \in VecRead(args.nums, left) :
                 /\ loc' = [loc EXCEPT !.s = LLSub(loc.s, out),
                                       !.cnt = CntDecr(loc.cnt, out),
                                       !.i = loc.i + 1]
                 /\ pc' = "admit"
                 /\ ret' = ret
                 /\ GoOn(undef, FALSE)
           \/ Crash(undef, FALSE)

MaximumSubarraySumReturn ==
    /\ fn = "maximumSubarraySum" /\ pc = "admit"
    /\ loc.i >= Len(args.nums)
    /\ pc' = "done"
    /\ ret' = <<loc.ans>>
    /\ UNCHANGED <<fn, args, loc, oob, ovf>>

----------------------------------------------------------------------------
(* 1423. maxScore(vector<int>& cardPoints, int k) *)

InitMaxScore(Ints) ==
    /\ fn = "maxScore"
    /\ \E cardPoints \in SeqsUpTo(Ints, MaxLen) : \E k \in KRange(Len(cardPoints)) :
          args = [cardPoints |-> cardPoints, k |-> k]
    /\ loc = << >>
    /\ pc = "reduce"

\* size of the block of cards that is not taken
BlockSize(n, k) == n - k

\* std::reduce over the first cnt elements with int accumulator 0:
\* the int kept, and whether some addition left the int range
RECURSIVE Reduce(_, _)
Reduce(vec, cnt) ==
    IF cnt = 0 THEN [val |-> 0, over |-> FALSE]
    ELSE LET r == Reduce(vec, cnt - 1)
             e == IntAdd(r.val, vec[cnt])
         IN  [val |-> WrapInt(e), over |-> r.over \/ ~FitsInt(e)]

\* int n = size; int m = n - k; int s = reduce(begin, begin + m);
\* int min_s = s; and the loop starts at i = m.  begin + m outside
\* [begin, end] is undefined.
MaxScoreReduce ==
    /\ fn = "maxScore" /\ pc = "reduce"
    /\ LET n == Len(args.cardPoints)
           m == BlockSize(n, args.k)
           undef == m < 0 \/ m > n
           r == IF undef THEN [val |-> 0, over |-> FALSE]
                ELSE Reduce(args.cardPoints, m)
       IN  \/ \E s \in (IF undef THEN GarbageInts ELSE {r.val}) :
                 /\ loc' = [n |-> n, m |-> m, s |-> s, min_s |-> s, i |-> m]
                 /\ pc' = "slide"
                 /\ ret' = ret
                 /\ GoOn(undef, r.over)
           \/ Crash(undef, r.over)

\* a faulty best: the largest block sum is kept
Worst(min_s, s) == Max(min_s, s)

\* best of the block sums seen so far
Best(min_s, s) == Min(min_s, s)

MaxScoreSlide ==
    /\ fn = "maxScore" /\ pc = "slide"
    /\ loc.i < loc.n
    /\ LET undef == \/ ~VecDefined(args.cardPoints, loc.i)
                    \/ ~VecDefined(args.cardPoints, loc.i - loc.m)
       IN  \E cin \in VecRead(args.cardPoints, loc.i) :
           \E cout \in VecRead(args.cardPoints, loc.i - loc.m) :
              LET d == IntSub(cin, cout)
                  e == IntAdd(loc.s, WrapInt(d))
                  over == ~FitsInt(d) \/ ~FitsInt(e)
                  s == WrapInt(e)
              IN  \/ /\ loc' = [loc EXCEPT !.s = s,
                                           !.min_s = Best(loc.min_s, s),
                                           !.i = loc.i + 1]
                     /\ pc' = pc
                     /\ ret' = ret
                     /\ GoOn(undef, over)
                  \/ Crash(undef, over)

MaxScoreReturn ==
    /\ fn = "maxScore" /\ pc = "slide"
    /\ loc.i >= loc.n
    /\ LET total == Reduce(args.cardPoints, loc.n)
           e == IntSub(total.val, loc.min_s)
           over == total.over \/ ~FitsInt(e)
       IN  \/ /\ pc' = "done"
              /\ ret' = <<WrapInt(e)>>
              /\ loc' = loc
              /\ GoOn(FALSE, over)
           \/ Crash(FALSE, over)

----------------------------------------------------------------------------

InitWith(Ints) ==
    /\ ret = << >>
    /\ oob = FALSE
    /\ ovf = FALSE
    /\ \/ InitMaxVowels
       \/ InitRecolors1
       \/ InitRecolors2
       \/ InitNumOfSubarrays(Ints)
       \/ InitFindMaxAverage(Ints)
       \/ InitMaximumSubarraySum(Ints)
       \/ InitMaxScore(Ints)

Init == InitWith(SmallInts)

\* the same calls on elements at and near the ends of the int range
InitWide == InitWith(WideInts)

Next ==
    \/ MaxVowelsAdmit
    \/ MaxVowelsCheck
    \/ MaxVowelsEvict
    \/ MaxVowelsReturn
    \/ Recolors1Count
    \/ Recolors1First
    \/ Recolors1Slide
    \/ Recolors1Return
    \/ Recolors2Count
    \/ Recolors2First
    \/ Recolors2Slide
    \/ Recolors2Return
    \/ NumOfSubarraysAdmit
    \/ NumOfSubarraysCheck
    \/ NumOfSubarraysEvict
    \/ NumOfSubarraysReturn
    \/ FindMaxAverageAdmit
    \/ FindMaxAverageCheck
    \/ FindMaxAverageEvict
    \/ FindMaxAverageReturn
    \/ MaximumSubarraySumAdmit
    \/ MaximumSubarraySumCheck
    \/ MaximumSubarraySumEvict
    \/ MaximumSubarraySumReturn
    \/ MaxScoreReduce
    \/ MaxScoreSlide
    \/ MaxScoreReturn

Spec == Init /\ [][Next]_vars

SpecWide == InitWide /\ [][Next]_vars

----------------------------------------------------------------------------
(* What the claims are stated in: the input of the call, its windows, and  *)
(* their aggregates recomputed from the input alone.  Indices are those of *)
(* the source (0-based).                                                   *)

Input ==
    CASE fn = "maxVowels" -> args.s
      [] fn \in {Recolors1, Recolors2} -> args.blocks
      [] fn = "numOfSubarrays" -> args.arr
      [] fn = "maxScore" -> args.cardPoints
      [] OTHER -> args.nums

N == Len(Input)
ValidK == args.k >= 1 /\ args.k <= N
Returned == pc = "done"

\* first indices of the windows of length k
Starts == 0 .. (N - args.k)

RECURSIVE SumRange(_, _, _)
SumRange(seq, lo, hi) ==
    IF lo > hi THEN 0 ELSE seq[hi + 1] + SumRange(seq, lo, hi - 1)

RECURSIVE WideSumRange(_, _, _)
WideSumRange(seq, lo, hi) ==
    IF lo > hi THEN Wide(0)
    ELSE WideAdd(Wide(seq[hi + 1]), WideSumRange(seq, lo, hi - 1))

WideMaxOf(S) == CHOOSE a \in S : \A b \in S : ~WideLess(a, b)
MaxOf(S) == CHOOSE a \in S : \A b \in S : a >= b
MinOf(S) == CHOOSE a \in S : \A b \in S : a <= b

VowelsIn(seq, lo, hi) ==
    Cardinality({j \in lo..hi : seq[j + 1] \in {"a", "e", "i", "o", "u"}})
NonBlackIn(seq, lo, hi) == Cardinality({j \in lo..hi : seq[j + 1] # "B"})
PairwiseDistinct(seq, lo, hi) ==
    \A p, q \in lo..hi : p # q => seq[p + 1] # seq[q + 1]
Occurrences(seq, lo, hi, x) == Cardinality({j \in lo..hi : seq[j + 1] = x})

----------------------------------------------------------------------------
(* C1 *)

DistinctStarts == {a \in Starts : PairwiseDistinct(args.nums, a, a + args.k - 1)}
DistinctSums == {WideSumRange(args.nums, a, a + args.k - 1) : a \in DistinctStarts}

\* C1 as stated: for every int sequence, negative and zero elements
\* included, and 1 <= k <= n, maximumSubarraySum returns the maximum sum of
\* the length-k windows of pairwise distinct elements, and returns 0 exactly
\* when there is no such window.
C1_MaxDistinctSum ==
    (fn = "maximumSubarraySum" /\ Returned /\ ValidK) =>
        /\ DistinctSums # {} => ret[1] = WideMaxOf(DistinctSums)
        /\ ret[1] = Wide(0) <=> DistinctSums = {}

\* C1 amended: maximumSubarraySum returns the larger of 0 and the maximum
\* sum of the length-k windows of pairwise distinct elements (0 when there
\* is none); when every element is positive this is that maximum, and the
\* result is 0 exactly when no such window exists.
C1_MaxDistinctSumOrZero ==
    (fn = "maximumSubarraySum" /\ Returned /\ ValidK) =>
        /\ ret[1] = WideMaxOf(DistinctSums \cup {Wide(0)})
        /\ (\A j \in 1..N : args.nums[j] > 0) =>
              /\ DistinctSums # {} => ret[1] = WideMaxOf(DistinctSums)
              /\ ret[1] = Wide(0) <=> DistinctSums = {}

\* a window with a repeated element and a larger sum stands beside the
\* distinct window whose sum is returned
C1_Witness ==
    /\ fn = "maximumSubarraySum" /\ Returned /\ ValidK
    /\ DistinctSums # {}
    /\ WideLess(Wide(0), ret[1])
    /\ \E a \in Starts \ DistinctStarts :
          WideLess(ret[1], WideSumRange(args.nums, a, a + args.k - 1))

----------------------------------------------------------------------------
(* C2 *)

\* C2: for 1 <= k <= n, k = n included, maxScore returns the maximum over
\* j in 0..k of (sum of the first j elements + sum of the last k - j), which
\* is the total minus the least sum of the k + 1 blocks of size n - k.
C2_MaxScore ==
    (fn = "maxScore" /\ Returned /\ ValidK) =>
        /\ ret[1] = MaxOf({SumRange(args.cardPoints, 0, j - 1)
                           + SumRange(args.cardPoints, N - (args.k - j), N - 1)
                           : j \in 0..args.k})
        /\ ret[1] = SumRange(args.cardPoints, 0, N - 1)
                    - MinOf({SumRange(args.cardPoints, a, a + (N - args.k) - 1)
                             : a \in 0..args.k})

\* k = n: the block left behind is empty and every card is taken
C2_Witness ==
    /\ fn = "maxScore" /\ Returned /\ ValidK
    /\ args.k = N /\ N >= 2
    /\ ret[1] = SumRange(args.cardPoints, 0, N - 1)
    /\ ret[1] # 0

----------------------------------------------------------------------------
(* C3 *)

\* C3: for 1 <= k <= n, maxVowels returns the maximum over the n - k + 1
\* windows of the number of vowels in the window, also when it leaves the
\* loop early because the running maximum reached k.
C3_MaxVowels ==
    (fn = "maxVowels" /\ Returned /\ ValidK) =>
        ret[1] = MaxOf({VowelsIn(args.s, a, a + args.k - 1) : a \in Starts})

\* the early exit was taken with windows still unvisited
C3_Witness ==
    /\ fn = "maxVowels" /\ Returned /\ ValidK
    /\ loc.i < N - 1
    /\ ret[1] = args.k

----------------------------------------------------------------------------
(* C4 *)

\* C4: for 1 <= k <= n, numOfSubarrays returns the number of length-k
\* windows whose sum is >= k * threshold (whose mean is >= threshold), each
\* window counted once.
C4_NumOfSubarrays ==
    (fn = "numOfSubarrays" /\ Returned /\ ValidK) =>
        ret[1] = Cardinality({a \in Starts :
                    SumRange(args.arr, a, a + args.k - 1) >= args.k * args.threshold})

\* some windows reach the threshold and some do not
C4_Witness ==
    /\ fn = "numOfSubarrays" /\ Returned /\ ValidK
    /\ args.k >= 2
    /\ ret[1] >= 1
    /\ ret[1] < Cardinality(Starts)

----------------------------------------------------------------------------
(* C5 *)

\* C5: for blocks over {W, B} and 1 <= k <= n, minimumRecolors returns the
\* minimum over the windows of the number of non-B characters, in both
\* copies of the function.
C5_MinimumRecolors ==
    (fn \in {Recolors1, Recolors2} /\ Returned /\ ValidK) =>
        ret[1] = MinOf({NonBlackIn(args.blocks, a, a + args.k - 1) : a \in Starts})

\* the minimum is found in a window after the first
C5_Witness ==
    /\ fn = Recolors2 /\ Returned /\ ValidK
    /\ ret[1] >= 1
    /\ ret[1] < NonBlackIn(args.blocks, 0, args.k - 1)

----------------------------------------------------------------------------
(* C6 *)

WindowSums == {SumRange(Input, a, a + args.k - 1) : a \in Starts}

\* C6: for 1 <= k <= n, window sums all negative included, findMaxAverage
\* returns S / k with S the maximum of the window sums; the initial INT_MIN
\* of the best sum is never what is divided.
C6_FindMaxAverage ==
    (fn = "findMaxAverage" /\ Returned /\ ValidK) =>
        /\ ret[1].den > 0
        /\ ret[1].num * args.k = MaxOf(WindowSums) * ret[1].den
        /\ loc.max_s = MaxOf(WindowSums)
        /\ loc.max_s # INT_MIN

\* every window sum is negative
C6_Witness ==
    /\ fn = "findMaxAverage" /\ Returned /\ ValidK
    /\ N >= 2
    /\ \A x \in WindowSums : x < 0
    /\ ret[1].num < 0

----------------------------------------------------------------------------
(* C7 *)

\* C7 as stated: with k outside [1, n] a function fails with an
\* invalid-argument condition: it neither returns a value nor reads the
\* sequence outside 0..n-1.
C7_InvalidKFails == ~ValidK => (~Returned /\ ~oob)

----------------------------------------------------------------------------
(* C8 *)

SumFns == {"maximumSubarraySum", "findMaxAverage", "numOfSubarrays", "maxScore"}

WideWindowSums == {WideSumRange(Input, a, a + args.k - 1) : a \in Starts}

\* the returned value is the one unbounded integers give
ExactResult ==
    CASE fn = "maximumSubarraySum" ->
            ret[1] = WideMaxOf(DistinctSums \cup {Wide(0)})
      [] fn = "findMaxAverage" ->
            /\ FitsInt(WideMaxOf(WideWindowSums))
            /\ loc.max_s = WrapInt(WideMaxOf(WideWindowSums))
            /\ ret[1] = Quotient(loc.max_s, args.k)
      [] fn = "numOfSubarrays" ->
            ret[1] = Cardinality({a \in Starts :
                        ~WideLess(WideSumRange(args.arr, a, a + args.k - 1),
                                  WideScale(args.k, Wide(args.threshold)))})
      [] fn = "maxScore" ->
            Wide(ret[1]) =
               WideMaxOf({WideAdd(WideSumRange(args.cardPoints, 0, j - 1),
                                  WideSumRange(args.cardPoints, N - (args.k - j), N - 1))
                          : j \in 0..args.k})

\* C8 as stated: in maximumSubarraySum, findMaxAverage, numOfSubarrays and
\* maxScore the running sum, the best sum and k * threshold are wide enough
\* that, for 32-bit elements whose window sum leaves the 32-bit range, no
\* value wraps and the result is the one unbounded integers give.
C8_NoSumWraps ==
    (fn \in SumFns /\ ValidK) =>
        /\ ~ovf
        /\ Returned => ExactResult

\* C8 amended: maximumSubarraySum keeps its running sum and best sum in
\* 64 bits: no value wraps and the result is the one unbounded integers
\* give.  findMaxAverage, numOfSubarrays and maxScore keep them (and
\* k * threshold) in 32-bit int: their result is the one unbounded integers
\* give whenever no sum, difference or product of the call left the int
\* range.
C8_OnlyLongLongIsWide ==
    /\ (fn = "maximumSubarraySum" /\ ValidK) =>
          /\ ~ovf
          /\ Returned => ExactResult
    /\ (fn \in SumFns /\ ValidK /\ Returned /\ ~ovf) => ExactResult

\* maximumSubarraySum returns a sum above INT_MAX
C8_Witness ==
    /\ fn = "maximumSubarraySum" /\ Returned /\ ValidK
    /\ WideLess(Wide(INT_MAX), ret[1])

----------------------------------------------------------------------------
(* C9 *)

LoopFns == {"numOfSubarrays", "findMaxAverage", "maxVowels", "maximumSubarraySum"}

\* the running aggregate, and the aggregate of the elements lo..hi
Aggregate == IF fn = "maxVowels" THEN loc.yuanyin ELSE loc.s
AggregateOf(lo, hi) ==
    CASE fn = "maxVowels" -> VowelsIn(args.s, lo, hi)
      [] fn = "maximumSubarraySum" -> WideSumRange(args.nums, lo, hi)
      [] OTHER -> SumRange(Input, lo, hi)

\* the answer accumulator, and its value before any update
Accumulator == IF fn = "findMaxAverage" THEN loc.max_s ELSE loc.ans
InitialAccumulator ==
    CASE fn = "findMaxAverage" -> INT_MIN
      [] fn = "maximumSubarraySum" -> Wide(0)
      [] OTHER -> 0

\* C9: in the admit/check/evict loops, for 1 <= k <= n: the answer is
\* updated only at indices i >= k - 1, and then the running aggregate is
\* that of the k elements i-k+1..i; at the start of an iteration i >= k it
\* is that of the k - 1 elements i-k+1..i-1; every index read is in 0..n-1.
C9_WindowAggregate ==
    (fn \in LoopFns /\ ValidK) =>
        /\ ~oob
        /\ pc \in {"check", "evict"} =>
              /\ loc.i >= args.k - 1
              /\ loc.i <= N - 1
              /\ Left(loc.i, args.k) >= 0
              /\ Left(loc.i, args.k) <= N - 1
              /\ Aggregate = AggregateOf(loc.i - args.k + 1, loc.i)
        /\ (pc = "admit" /\ loc.i >= args.k /\ loc.i < N) =>
              Aggregate = AggregateOf(loc.i - args.k + 1, loc.i - 1)
        /\ (pc = "admit" /\ loc.i <= args.k - 1) =>
              Accumulator = InitialAccumulator

\* a window that has slid is about to be checked
C9_Witness ==
    /\ fn = "numOfSubarrays" /\ ValidK
    /\ pc = "check"
    /\ args.k >= 2
    /\ loc.i >= args.k
    /\ loc.s # 0

----------------------------------------------------------------------------
(* C10 *)

\* first and last index of the elements the mapping stands for
WindowLo == Max(0, loc.i - args.k + 1)
WindowHi == IF pc \in {"check", "evict"} THEN loc.i ELSE loc.i - 1

\* C10: in maximumSubarraySum, for 1 <= k <= n, after every eviction the
\* mapping has no key with a count of 0 or less, every key's count is the
\* number of occurrences of the value in the current window, and at the
\* check at index i >= k - 1 the mapping has k keys exactly when the k
\* elements i-k+1..i are pairwise distinct.
C10_FrequencyMapping ==
    (fn = "maximumSubarraySum" /\ ValidK) =>
        /\ \A x \in DOMAIN loc.cnt : loc.cnt[x] >= 1
        /\ \A x \in DOMAIN loc.cnt :
              loc.cnt[x] = Occurrences(args.nums, WindowLo, WindowHi, x)
        /\ \A j \in WindowLo..WindowHi : args.nums[j + 1] \in DOMAIN loc.cnt
        /\ pc = "check" =>
              (CntSize(loc.cnt) = args.k
                  <=> PairwiseDistinct(args.nums, loc.i - args.k + 1, loc.i))

\* an eviction has erased the key of the element that left, and the window
\* still holds a repeated element
C10_Witness ==
    /\ fn = "maximumSubarraySum" /\ ValidK
    /\ pc = "admit"
    /\ loc.i >= args.k
    /\ args.nums[loc.i - args.k + 1] \notin DOMAIN loc.cnt
    /\ \E x \in DOMAIN loc.cnt : loc.cnt[x] >= 2

====
